---- MODULE Spec2Model ----
(***************************************************************************)
(* cargo-check-i18n: the concurrent diagnostic-stream translation          *)
(* pipeline of src/main.rs.  Text is modelled as a sequence of characters  *)
(* (one-character strings); the two reader threads, the shared cache       *)
(* mutex, the rate limiter, the cache file and the driver are the state.   *)
(***************************************************************************)
EXTENDS Integers, Sequences, FiniteSets, TLC

(***************************************************************************)
(* Bounds of the model.                                                    *)
(***************************************************************************)
\* lines read from the two streams, all runs together
MaxLines == 2
\* largest reading of the clock (in ticks) in one run
MaxClock == 2
\* successive invocations of the tool against the same project directory
MaxRuns == 2

(***************************************************************************)
(* Characters and strings.                                                 *)
(***************************************************************************)
\* the escape byte 0x1b that starts a terminal colour sequence
ESC == "\\e"
\* a byte that is not valid UTF-8 (0xFF)
BadByte == "\\xFF"
QUOTE == "\""
BSLASH == "\\"
LF == "\n"
TAB == "\t"

Digits == {"0", "1", "2", "3", "4", "5", "6", "7", "8", "9"}
\* the letter e with an acute accent, U+00E9: two bytes in UTF-8
EAcute == "\\u00E9"
LowerLetters == {"a", "b", "c", "d", "e", "f", "g", "h", "i", "j", "k", "l", "m",
                 "n", "o", "p", "q", "r", "s", "t", "u", "v", "w", "x", "y", "z",
                 EAcute}
UpperLetters == {"E", "T", "W"}

\* char::is_whitespace on the characters of the model
IsWs(c) == c \in {" ", TAB, LF, "\r"}

\* char::is_ascii_digit
IsAsciiDigit(c) == c \in Digits

\* char::is_alphabetic
IsAlphabetic(c) == c \in LowerLetters \cup UpperLetters

\* str::to_lowercase, character by character
LowerChar(c) ==
    CASE c = "E" -> "e"
      [] c = "T" -> "t"
      [] c = "W" -> "w"
      [] OTHER -> c

to_lowercase(s) == [i \in 1..Len(s) |-> LowerChar(s[i])]

\* the characters of a text
Range(s) == {s[i] : i \in 1..Len(s)}

\* s[i..] with a 1-based start index
Drop(s, i) == SubSeq(s, i, Len(s))

\* a faulty variant of trim_start: nothing is removed
KeepStart(s) == s

RECURSIVE trim_start(_)
trim_start(s) ==
    IF s # <<>> /\ IsWs(Head(s)) THEN trim_start(Tail(s)) ELSE s

RECURSIVE trim_end(_)
trim_end(s) ==
    IF s # <<>> /\ IsWs(s[Len(s)]) THEN trim_end(SubSeq(s, 1, Len(s) - 1)) ELSE s

trim(s) == trim_end(trim_start(s))

starts_with(s, p) == Len(p) <= Len(s) /\ SubSeq(s, 1, Len(p)) = p

contains(s, p) ==
    \E i \in 1..(Len(s) - Len(p) + 1) : SubSeq(s, i, i + Len(p) - 1) = p

\* str::find of one character: the least index holding it, 0 for None
find(s, c) ==
    IF \E i \in 1..Len(s) : s[i] = c
    THEN CHOOSE i \in 1..Len(s) : s[i] = c /\ \A j \in 1..(i - 1) : s[j] # c
    ELSE 0

\* str::replace(c, t): every character c replaced by the text t
RECURSIVE replace_char(_, _, _)
replace_char(s, c, t) ==
    IF s = <<>> THEN <<>>
    ELSE (IF Head(s) = c THEN t ELSE <<Head(s)>>) \o replace_char(Tail(s), c, t)

\* str::len: the length in bytes of the UTF-8 encoding (the characters of the
\* model are of one byte, but for EAcute, which is of two)
ByteLen(s) == Len(s) + Cardinality({i \in 1..Len(s) : s[i] = EAcute})

\* std::str::from_utf8 succeeds
IsUtf8(s) == \A i \in 1..Len(s) : s[i] # BadByte

(***************************************************************************)
(* strip_ansi_escapes::strip: a CSI sequence ESC [ parameters final-byte   *)
(* is removed; a C0 control character other than the newline is dropped.   *)
(***************************************************************************)
IsCsiParam(c) == c \in Digits \cup {";"}

RECURSIVE SkipCsi(_)
SkipCsi(s) ==
    IF s = <<>> THEN <<>>
    ELSE IF IsCsiParam(Head(s)) THEN SkipCsi(Tail(s))
    ELSE Tail(s)

RECURSIVE strip(_)
strip(s) ==
    IF s = <<>> THEN <<>>
    ELSE IF Head(s) = ESC
         THEN IF Len(s) >= 2 /\ s[2] = "[" THEN strip(SkipCsi(Drop(s, 3)))
              ELSE strip(Drop(s, 3))
    ELSE IF Head(s) \in {TAB, "\r"} THEN strip(Tail(s))
    ELSE <<Head(s)>> \o strip(Tail(s))

(***************************************************************************)
(* should_translate                                                        *)
(***************************************************************************)
KwCompiling == <<"c", "o", "m", "p", "i", "l", "i", "n", "g">>
KwChecking == <<"c", "h", "e", "c", "k", "i", "n", "g">>
KwFinished == <<"f", "i", "n", "i", "s", "h", "e", "d">>
KwArrow == <<"-", "-", ">">>
KwError == <<"e", "r", "r", "o", "r">>
KwWarning == <<"w", "a", "r", "n", "i", "n", "g">>
KwNote == <<"n", "o", "t", "e">>
KwHelp == <<"h", "e", "l", "p">>

\* the length heuristic's limits
MinLen == 15
MaxLen == 120

should_translate(line) ==
    LET t == trim(line)
        lower == to_lowercase(t)
        i == find(line, "|")
        after == trim_start(Drop(line, i + 1))
    IN  IF \/ starts_with(lower, KwCompiling)
           \/ starts_with(lower, KwChecking)
           \/ starts_with(lower, KwFinished)
           \/ starts_with(lower, KwArrow)
        THEN FALSE
        ELSE IF t # <<>> /\ IsAsciiDigit(Head(t)) /\ contains(t, <<"|">>)
        THEN FALSE
        ELSE IF t = <<"|">>
        THEN FALSE
        ELSE IF i # 0 /\ ~starts_with(after, <<"-">>) /\ ~starts_with(after, <<"^">>)
        THEN FALSE
        ELSE \/ contains(lower, KwError)
             \/ contains(lower, KwWarning)
             \/ contains(lower, KwNote)
             \/ contains(lower, KwHelp)
             \/ /\ ByteLen(line) > MinLen
                /\ ByteLen(line) < MaxLen
                /\ \E k \in 1..Len(line) : IsAlphabetic(line[k])

(***************************************************************************)
(* The cache file: serde_json::to_string_pretty of the map, and            *)
(* serde_json::from_str back into a map of strings to strings.             *)
(***************************************************************************)
EmptyMap == [k \in {} |-> <<>>]

\* a faulty variant of insert: the new entry replaces the map
InsertAlone(m, k, v) == k :> v

\* HashMap::insert
insert(m, k, v) == (k :> v) @@ m

\* a faulty variant of EscapeChar: nothing is escaped
NoEscape(c) == <<c>>

\* the escaping of one character inside a JSON string
EscapeChar(c) ==
    CASE c = QUOTE -> <<BSLASH, QUOTE>>
      [] c = BSLASH -> <<BSLASH, BSLASH>>
      [] c = LF -> <<BSLASH, "n">>
      [] c = TAB -> <<BSLASH, "t">>
      [] c = "\r" -> <<BSLASH, "r">>
      [] OTHER -> <<c>>

RECURSIVE EscapeStr(_)
EscapeStr(s) ==
    IF s = <<>> THEN <<>> ELSE EscapeChar(Head(s)) \o EscapeStr(Tail(s))

JsonString(s) == <<QUOTE>> \o EscapeStr(s) \o <<QUOTE>>

\* the orders in which a HashMap may iterate over its keys
Orders(m) ==
    {o \in [1..Cardinality(DOMAIN m) -> DOMAIN m] :
        \A i, j \in DOMAIN o : o[i] = o[j] => i = j}

RECURSIVE PrettyMembers(_, _, _)
PrettyMembers(m, order, i) ==
    IF i > Len(order) THEN <<>>
    ELSE <<LF, " ", " ">> \o JsonString(order[i]) \o <<":", " ">>
         \o JsonString(m[order[i]])
         \o (IF i < Len(order) THEN <<",">> ELSE <<>>)
         \o PrettyMembers(m, order, i + 1)

\* serde_json::to_string_pretty(cache), the keys visited in `order`
to_string_pretty(m, order) ==
    IF DOMAIN m = {} THEN <<"{", "}">>
    ELSE <<"{">> \o PrettyMembers(m, order, 1) \o <<LF, "}">>

RECURSIVE SkipWs(_, _)
SkipWs(s, i) == IF i <= Len(s) /\ IsWs(s[i]) THEN SkipWs(s, i + 1) ELSE i

Unescape(c) ==
    CASE c = "n" -> LF
      [] c = "t" -> TAB
      [] c = "r" -> "\r"
      [] OTHER -> c

\* the characters after a backslash that the model's JSON strings may hold
Escapable == {QUOTE, BSLASH, "/", "n", "t", "r"}

\* a JSON string starting at s[i] (the opening quote already consumed):
\* [ok, val, next], next the index after the closing quote
RECURSIVE ParseChars(_, _, _)
ParseChars(s, i, acc) ==
    IF i > Len(s) THEN [ok |-> FALSE, val |-> <<>>, next |-> i]
    ELSE IF s[i] = QUOTE THEN [ok |-> TRUE, val |-> acc, next |-> i + 1]
    ELSE IF s[i] = BSLASH
         THEN IF i + 1 <= Len(s) /\ s[i + 1] \in Escapable
              THEN ParseChars(s, i + 2, Append(acc, Unescape(s[i + 1])))
              ELSE [ok |-> FALSE, val |-> <<>>, next |-> i]
    ELSE IF s[i] \in {LF, TAB, "\r"}
         THEN [ok |-> FALSE, val |-> <<>>, next |-> i]
    ELSE ParseChars(s, i + 1, Append(acc, s[i]))

ParseString(s, i) ==
    IF i <= Len(s) /\ s[i] = QUOTE THEN ParseChars(s, i + 1, <<>>)
    ELSE [ok |-> FALSE, val |-> <<>>, next |-> i]

ParseFail == [ok |-> FALSE, map |-> EmptyMap]

\* the members of a JSON object from s[i] on, a later duplicate key winning
RECURSIVE ParseMembers(_, _, _)
ParseMembers(s, i, acc) ==
    LET k == ParseString(s, i)
        c == SkipWs(s, k.next)
        v == ParseString(s, SkipWs(s, c + 1))
        e == SkipWs(s, v.next)
        m == insert(acc, k.val, v.val)
    IN  IF ~k.ok \/ c > Len(s) \/ s[c] # ":" THEN ParseFail
        ELSE IF ~v.ok \/ e > Len(s) THEN ParseFail
        ELSE IF s[e] = "," THEN ParseMembers(s, SkipWs(s, e + 1), m)
        ELSE IF s[e] = "}" /\ SkipWs(s, e + 1) > Len(s) THEN [ok |-> TRUE, map |-> m]
        ELSE ParseFail

\* serde_json::from_str::<HashMap<String, String>>
from_str(s) ==
    LET b == SkipWs(s, 1)
        f == SkipWs(s, b + 1)
    IN  IF b > Len(s) \/ s[b] # "{" THEN ParseFail
        ELSE IF f <= Len(s) /\ s[f] = "}"
             THEN IF SkipWs(s, f + 1) > Len(s) THEN [ok |-> TRUE, map |-> EmptyMap]
                  ELSE ParseFail
        ELSE ParseMembers(s, f, EmptyMap)

\* a file of the file system: present or not, with its text
NoFile == [present |-> FALSE, text |-> <<>>]
FileOf(t) == [present |-> TRUE, text |-> t]

load_cache(f) ==
    IF ~f.present THEN EmptyMap
    ELSE IF from_str(f.text).ok THEN from_str(f.text).map
    ELSE EmptyMap

\* the outcomes of fs::write: the file is created (truncated) and written,
\* or creating it fails, or writing fails after the truncation
WriteOutcomes == {"ok", "create_failed", "write_failed"}

\* a faulty variant of save_cache: the file is never written
SaveNothing(f, cache, order, outcome) == f

save_cache(f, cache, order, outcome) ==
    CASE outcome = "ok" -> FileOf(to_string_pretty(cache, order))
      [] outcome = "create_failed" -> f
      [] OTHER -> FileOf(<<>>)


(***************************************************************************)
(* The inputs of the model.                                                *)
(***************************************************************************)
\* lines the supervised process may write to either stream
LineError == KwError
LineDecorated == <<ESC, "[", "3", "1", "m", " ">> \o KwError \o <<ESC, "[", "0", "m">>
LineNote == KwNote
LineGutter == <<"1", " ", "|">>
LineBadUtf8 == <<"e", BadByte>>
SampleLines == {LineError, LineDecorated, LineNote, LineGutter, LineBadUtf8}

\* the fixed text standing for a failed translation
Sentinel ==
    <<"T", "r", "a", "n", "s", "l", "a", "t", "i", "o", "n", " ",
      "f", "a", "i", "l", "e", "d", ".">>

\* Option<String>
None == [some |-> FALSE, val |-> <<>>]
Some(v) == [some |-> TRUE, val |-> v]

\* what query_llm may return: nothing, the sentinel text itself, the sentinel
\* text followed by a newline, and a translation
TextA == <<"h", QUOTE, BSLASH, LF, "i", LF>>
Responses == {None, Some(Sentinel), Some(Sentinel \o <<LF>>), Some(TextA)}

\* the text of the cache file before the first run: none, or not JSON
InitFiles == {NoFile, FileOf(<<"{">>)}

\* rate_limit settings of the configuration file
ConfigRates == {0, 1, 2}
\* clock ticks in one second
TicksPerSec == 2

\* what the supervised process ends with: an exit code, or a signal
ChildStatuses == {[code |-> 0], [code |-> 2], [signal |-> 9]}
\* the status is not known to the model yet
NoStatus == [unknown |-> TRUE]

\* the configuration file: missing, not TOML, without api_key, complete
ConfigStates == {"absent", "malformed", "nokey", "ok"}

Workers == {1, 2}

(***************************************************************************)
(* The helpers of process_line.                                            *)
(***************************************************************************)
\* a faulty variant of CacheKey: the key keeps the colour escapes
RawKey(raw) == trim(raw)

\* the cache key of a raw line
CacheKey(raw) == trim(strip(raw))

Keys == {CacheKey(l) : l \in {x \in SampleLines : IsUtf8(x)}}

\* a faulty variant of Lookup: every lookup misses
LookupMiss(m, key) == None

\* HashMap::get
Lookup(m, key) == IF key \in DOMAIN m THEN Some(m[key]) ELSE None

\* a faulty variant of IsGenuine: the sentinel text is stored like a translation
IsGenuineAny(r) == r.some

\* the first match arm: a response that is stored
IsGenuine(r) == r.some /\ r.val # Sentinel

\* the value of the block for a response
Translation(r) == IF r.some THEN trim_end(r.val) ELSE Sentinel

\* a line on the standard output, and none yet
Line(w, raw, text) == [w |-> w, raw |-> raw, text |-> text]
NoLine == Line(0, <<>>, <<>>)

\* println!("{} ({})", raw, zh)
Annotated(raw, t) == raw \o <<" ", "(">> \o t \o <<")">>

\* a faulty variant of CanLock: the mutex excludes nobody
AlwaysLock(holder) == TRUE

\* Mutex::lock returns once no other thread holds the mutex
CanLock(holder) == holder = 0

\* RateLimiter::new: the interval of a rate, in ticks
IntervalOf(max_per_sec) ==
    LET safe_max == IF max_per_sec < 1 THEN 1 ELSE max_per_sec
    IN  TicksPerSec \div safe_max

\* a faulty variant of duration_since: the time since the start of the run
SinceStart(now, earlier) == now

\* Instant::duration_since, saturating at zero
duration_since(now, earlier) == IF now > earlier THEN now - earlier ELSE 0

\* a faulty variant of SleepFor: the caller never sleeps
NoSleep(ival, elapsed) == 0

\* RateLimiter::wait: how long the caller sleeps
SleepFor(ival, elapsed) == IF elapsed < ival THEN ival - elapsed ELSE 0

\* the exit code of the process for the status child.wait() returned
ExitCodeOf(status) ==
    IF "code" \in DOMAIN status THEN status.code ELSE 1

\* the exit code of a process whose main thread panicked
PanicExit == 101

(***************************************************************************)
(* State.                                                                  *)
(***************************************************************************)
VARIABLES
    run,          \* the number of this invocation of the tool
    mainpc,       \* where main is
    exitCode,     \* the exit code of the process, -1 while it runs
    childStatus,  \* the status the supervised process ends with
    spawned,      \* the supervised process was spawned in this run
    file,         \* the cache file
    store,        \* the HashMap inside the cache mutex
    cacheHolder,  \* the worker holding the cache mutex, 0 for none
    poisoned,     \* a thread panicked while holding the cache mutex
    interval,     \* RateLimiter.interval
    last,         \* RateLimiter.last
    limHolder,    \* the worker holding the limiter's mutex, 0 for none
    clock,        \* the latest reading of Instant::now()
    pc,           \* where each worker is
    nread,        \* per worker, the lines its stream has delivered in this run
    cur,          \* the raw line a worker is processing
    res,          \* the response of the worker's last query_llm
    zh,           \* the translation the worker is about to print
    deadline,     \* the instant a sleeping worker's sleep ends
    printed,      \* per worker, the lines it has printed in this run
    stdout,       \* the line printed last: who printed it, the raw line, the text
    failed,       \* keys whose latest resolution in this run failed
    sent,         \* the instant of the latest call of query_llm, -1 for none
    lastSave,     \* the outcome of the latest save_cache of this run
    prevStore,    \* the map at the end of the previous run
    prevSave,     \* lastSave at the end of the previous run
    config,       \* the configuration file
    linesRead,    \* the lines read so far, all runs together
    call          \* a function called on its own: its name, arguments, result

vars == <<run, mainpc, exitCode, childStatus, spawned, file, store, cacheHolder, poisoned,
          interval, last, limHolder, clock, pc, nread, cur, res, zh, deadline,
          printed, stdout, failed, sent, lastSave, prevStore, prevSave,
          config, linesRead, call>>

env == <<run, prevStore, prevSave, config>>
limiter == <<interval, last, limHolder>>
cache == <<store, cacheHolder, poisoned, file, lastSave>>
driver == <<mainpc, exitCode, childStatus, spawned>>
locals == <<cur, res, zh, deadline>>
output == <<printed, stdout>>
history == <<failed, sent>>

\* no function is called on its own
NoCall == [fn |-> "none", n |-> 0]

\* the state of a process that has just started
Fresh ==
    /\ mainpc = "start"
    /\ exitCode = -1
    /\ childStatus = NoStatus
    /\ spawned = FALSE
    /\ store = EmptyMap
    /\ cacheHolder = 0
    /\ poisoned = FALSE
    /\ interval = 0
    /\ last = 0
    /\ limHolder = 0
    /\ clock = 0
    /\ pc = [w \in Workers |-> "off"]
    /\ nread = [w \in Workers |-> 0]
    /\ cur = [w \in Workers |-> <<>>]
    /\ res = [w \in Workers |-> None]
    /\ zh = [w \in Workers |-> <<>>]
    /\ deadline = [w \in Workers |-> 0]
    /\ printed = [w \in Workers |-> 0]
    /\ stdout = NoLine
    /\ failed = {}
    /\ sent = -1
    /\ lastSave = "none"

Init ==
    /\ Fresh
    /\ run = 1
    /\ file \in InitFiles
    /\ prevStore = EmptyMap
    /\ prevSave = "none"
    /\ config \in ConfigStates
    /\ linesRead = 0
    /\ call = NoCall


(***************************************************************************)
(* main                                                                    *)
(***************************************************************************)
Exit(code) ==
    /\ mainpc' = "exited"
    /\ exitCode' = code

\* a faulty variant of MainLoadConfig: the run goes on whatever the file holds
MainLoadConfigUnchecked ==
    /\ mainpc = "start"
    /\ mainpc' = "setup"
    /\ UNCHANGED <<env, linesRead, exitCode, childStatus, spawned, cache, limiter,
                   clock, pc, nread, locals, output, history, call>>

\* main, lines 108-144: load the configuration or write the template
MainLoadConfig ==
    /\ mainpc = "start"
    /\ CASE config = "absent" -> Exit(0) /\ config' = "nokey"
         [] config = "malformed" -> Exit(1) /\ config' = config
         [] config = "nokey" -> Exit(1) /\ config' = config
         [] OTHER -> mainpc' = "setup" /\ exitCode' = exitCode /\ config' = config
    /\ UNCHANGED <<run, prevStore, prevSave, linesRead, childStatus, spawned, cache, limiter,
                   clock, pc, nread, locals, output, history, call>>

\* main, lines 146-152: load the cache, build the rate limiter
MainSetup ==
    /\ mainpc = "setup"
    /\ store' = load_cache(file)
    /\ \E r \in ConfigRates :
          LET rate_limit == IF r > 1 THEN r ELSE 1
          IN  /\ interval' = IntervalOf(rate_limit)
              /\ last' = clock - IntervalOf(rate_limit)
    /\ mainpc' = "spawn"
    /\ UNCHANGED <<env, linesRead, exitCode, childStatus, spawned, cacheHolder, poisoned, file,
                   lastSave,
                   limHolder, clock, pc, nread, locals, output, history, call>>

\* main, lines 155-168: spawn cargo check and the two readers
MainSpawn ==
    /\ mainpc = "spawn"
    /\ \/ /\ Exit(1)
          /\ UNCHANGED <<spawned, pc>>
       \/ /\ spawned' = TRUE
          /\ pc' = [w \in Workers |-> "read"]
          /\ mainpc' = "join"
          /\ exitCode' = exitCode
    /\ UNCHANGED <<env, linesRead, childStatus, cache, limiter, clock, nread, locals, output,
                   history, call>>

\* main, lines 169-171: h.join().unwrap() on the two handles in turn; the
\* first thread found to have panicked panics main, whatever the second does
MainJoin ==
    /\ mainpc = "join"
    /\ \/ /\ \/ pc[1] = "panicked"
             \/ pc[1] = "done" /\ pc[2] = "panicked"
          /\ Exit(PanicExit)
          /\ childStatus' \in ChildStatuses
       \/ /\ \A w \in Workers : pc[w] = "done"
          /\ mainpc' = "wait"
          /\ UNCHANGED <<exitCode, childStatus>>
    /\ UNCHANGED <<env, linesRead, spawned, cache, limiter, clock, pc, nread, locals, output,
                   history, call>>

\* main, lines 173-177: child.wait()? and the exit code
MainWait ==
    /\ mainpc = "wait"
    /\ \/ Exit(1) /\ childStatus' = childStatus
       \/ \E st \in ChildStatuses : childStatus' = st /\ Exit(ExitCodeOf(st))
    /\ UNCHANGED <<env, linesRead, spawned, cache, limiter, clock, pc, nread, locals, output,
                   history, call>>

\* the tool is invoked again in the same project directory
NextRun ==
    /\ mainpc = "exited"
    /\ run < MaxRuns
    /\ run' = run + 1
    /\ prevStore' = store
    /\ prevSave' = lastSave
    /\ config' \in IF config = "ok" THEN {"ok"} ELSE {config, "ok"}
    /\ mainpc' = "start"
    /\ exitCode' = -1
    /\ childStatus' = NoStatus
    /\ spawned' = FALSE
    /\ store' = EmptyMap
    /\ cacheHolder' = 0
    /\ poisoned' = FALSE
    /\ interval' = 0
    /\ last' = 0
    /\ limHolder' = 0
    /\ clock' = 0
    /\ pc' = [w \in Workers |-> "off"]
    /\ nread' = [w \in Workers |-> 0]
    /\ cur' = [w \in Workers |-> <<>>]
    /\ res' = [w \in Workers |-> None]
    /\ zh' = [w \in Workers |-> <<>>]
    /\ deadline' = [w \in Workers |-> 0]
    /\ printed' = [w \in Workers |-> 0]
    /\ stdout' = NoLine
    /\ failed' = {}
    /\ sent' = -1
    /\ lastSave' = "none"
    /\ UNCHANGED <<file, linesRead, call>>

(***************************************************************************)
(* The reader threads: spawn_reader and process_line                       *)
(***************************************************************************)
\* the threads run while main waits for them
Running == mainpc = "join"

\* spawn_reader, lines 188-190, and process_line, lines 202-204 and 233-235:
\* the next line of the stream; a line that is not UTF-8 is an Err that
\* flatten() drops; a line that is not to be translated is printed as it is
ReadLine(w) ==
    /\ Running
    /\ pc[w] = "read"
    /\ linesRead < MaxLines
    /\ linesRead' = linesRead + 1
    /\ \E raw \in SampleLines :
          /\ nread' = [nread EXCEPT ![w] = @ + 1]
          /\ IF ~IsUtf8(raw)
             THEN UNCHANGED <<pc, cur, output>>
             ELSE IF should_translate(strip(raw))
             THEN /\ pc' = [pc EXCEPT ![w] = "lock"]
                  /\ cur' = [cur EXCEPT ![w] = raw]
                  /\ UNCHANGED output
             ELSE /\ printed' = [printed EXCEPT ![w] = @ + 1]
                  /\ stdout' = Line(w, raw, raw)
                  /\ UNCHANGED <<pc, cur>>
    /\ UNCHANGED <<env, driver, cache, limiter, clock, res, zh, deadline, history, call>>

\* spawn_reader, line 189: the stream is at its end
ReadEof(w) ==
    /\ Running
    /\ pc[w] = "read"
    /\ pc' = [pc EXCEPT ![w] = "done"]
    /\ UNCHANGED <<env, linesRead, driver, cache, limiter, clock, nread, locals, output,
                   history, call>>

\* process_line, lines 206-209: lock the cache and look the key up
LockCache(w) ==
    /\ Running
    /\ pc[w] = "lock"
    /\ CanLock(cacheHolder)
    /\ LET key == CacheKey(cur[w])
       IN  IF poisoned
           THEN /\ pc' = [pc EXCEPT ![w] = "panicked"]
                /\ UNCHANGED <<cacheHolder, zh>>
           ELSE IF Lookup(store, key).some
           THEN /\ zh' = [zh EXCEPT ![w] = Lookup(store, key).val]
                /\ pc' = [pc EXCEPT ![w] = "emit"]
                /\ cacheHolder' = cacheHolder
           ELSE /\ cacheHolder' = w
                /\ pc' = [pc EXCEPT ![w] = "config"]
                /\ zh' = zh
    /\ UNCHANGED <<env, linesRead, driver, store, poisoned, file, lastSave, limiter, clock,
                   nread, cur, res, deadline, output, history, call>>

\* process_line, line 210, and get_config: the settings are read again; a
\* file that cannot be read or parsed panics the thread, which poisons the
\* cache mutex it holds
GetConfig(w) ==
    /\ Running
    /\ pc[w] = "config"
    /\ \/ /\ pc' = [pc EXCEPT ![w] = "wait"]
          /\ UNCHANGED <<cacheHolder, poisoned>>
       \/ /\ pc' = [pc EXCEPT ![w] = "panicked"]
          /\ poisoned' = TRUE
          /\ cacheHolder' = 0
    /\ UNCHANGED <<env, linesRead, driver, store, file, lastSave, limiter, clock, nread, locals,
                   output, history, call>>

\* Instant::now(): the clock has not gone back since it was last read; it
\* shows an instant not before `least`, and one up to MaxClock when other
\* delays have let the time pass
Readings(least) ==
    LET from == IF least > clock THEN least ELSE clock
    IN  from..(IF from > MaxClock THEN from ELSE MaxClock)

\* RateLimiter::wait, lines 81-86: lock, read the clock, start to sleep
WaitBegin(w) ==
    /\ Running
    /\ pc[w] = "wait"
    /\ CanLock(limHolder)
    /\ limHolder' = w
    /\ \E now \in Readings(clock) :
          /\ clock' = now
          /\ deadline' = [deadline EXCEPT
                             ![w] = now + SleepFor(interval, duration_since(now, last))]
    /\ pc' = [pc EXCEPT ![w] = "sleep"]
    /\ UNCHANGED <<env, linesRead, driver, cache, interval, last, nread, cur, res, zh,
                   output, history, call>>

\* RateLimiter::wait, lines 85-88: the sleep lasts at least as long as asked;
\* the clock is read again and the instant recorded
WaitEnd(w) ==
    /\ Running
    /\ pc[w] = "sleep"
    /\ \E now \in Readings(deadline[w]) :
          /\ clock' = now
          /\ last' = now
    /\ limHolder' = 0
    /\ pc' = [pc EXCEPT ![w] = "send"]
    /\ deadline' = [deadline EXCEPT ![w] = 0]
    /\ UNCHANGED <<env, linesRead, driver, cache, interval, nread, cur, res, zh, output,
                   history, call>>

\* process_line, line 219, and query_llm, line 304: the request is sent, at
\* some instant not before the one wait() recorded
Send(w) ==
    /\ Running
    /\ pc[w] = "send"
    /\ \E now \in Readings(clock) :
          /\ clock' = now
          /\ sent' = now
    /\ pc' = [pc EXCEPT ![w] = "recv"]
    /\ UNCHANGED <<env, linesRead, driver, cache, limiter, nread, locals, output, failed, call>>

\* process_line, lines 219-230: query_llm returns; a translation is stored
\* and the map written to the file; the cache mutex is released
Recv(w) ==
    /\ Running
    /\ pc[w] = "recv"
    /\ \E r \in Responses :
          LET key == CacheKey(cur[w])
              stored == insert(store, key, Translation(r))
          IN  /\ res' = [res EXCEPT ![w] = r]
              /\ zh' = [zh EXCEPT ![w] = Translation(r)]
              /\ IF IsGenuine(r)
                 THEN /\ store' = stored
                      /\ \E o \in Orders(stored), outcome \in WriteOutcomes :
                            /\ file' = save_cache(file, stored, o, outcome)
                            /\ lastSave' = (IF outcome = "ok" THEN "ok" ELSE "failed")
                      /\ failed' = failed \ {key}
                 ELSE /\ UNCHANGED <<store, file, lastSave>>
                      /\ failed' = failed \cup {key}
    /\ cacheHolder' = 0
    /\ pc' = [pc EXCEPT ![w] = "emit"]
    /\ UNCHANGED <<env, linesRead, driver, poisoned, limiter, clock, nread, cur, deadline,
                   output, sent, call>>

\* process_line, line 232: the line and its translation are printed
Emit(w) ==
    /\ Running
    /\ pc[w] = "emit"
    /\ printed' = [printed EXCEPT ![w] = @ + 1]
    /\ stdout' = Line(w, cur[w], Annotated(cur[w], zh[w]))
    /\ pc' = [pc EXCEPT ![w] = "read"]
    /\ cur' = [cur EXCEPT ![w] = <<>>]
    /\ res' = [res EXCEPT ![w] = None]
    /\ zh' = [zh EXCEPT ![w] = <<>>]
    /\ UNCHANGED <<env, linesRead, driver, cache, limiter, clock, nread, deadline, history, call>>

Next ==
    \/ MainLoadConfig
    \/ MainSetup
    \/ MainSpawn
    \/ MainJoin
    \/ MainWait
    \/ NextRun
    \/ \E w \in Workers : ReadLine(w)
    \/ \E w \in Workers : ReadEof(w)
    \/ \E w \in Workers : LockCache(w)
    \/ \E w \in Workers : GetConfig(w)
    \/ \E w \in Workers : WaitBegin(w)
    \/ \E w \in Workers : WaitEnd(w)
    \/ \E w \in Workers : Send(w)
    \/ \E w \in Workers : Recv(w)
    \/ \E w \in Workers : Emit(w)

Spec == Init /\ [][Next]_vars


(***************************************************************************)
(* Properties.                                                             *)
(***************************************************************************)
\* a worker w takes a step from the place `from`
Leaves(w, from) == pc[w] = from /\ pc'[w] # from

\* query_llm yielded no translation: nothing, or the sentinel text
FailedResponse(r) == ~r.some \/ r.val = Sentinel

\* the places between the start of a cache-miss resolution and its end
InFlight == {"config", "wait", "sleep", "send", "recv"}

\* C1: a failed cache-miss resolution of a key returns the failure sentinel
\* and leaves the map and the cache file as they were, so the key stays out
\* of the map, and the next lookup of it, by either worker, misses and goes
\* on to the external call.
C1_FailureNotCached ==
    /\ [][\A w \in Workers :
            (Leaves(w, "recv") /\ FailedResponse(res'[w]))
                => (zh'[w] = Sentinel /\ store' = store /\ file' = file)]_vars
    /\ [](\A k \in failed : k \notin DOMAIN store)
    /\ [][\A w \in Workers :
            (Leaves(w, "lock") /\ ~poisoned /\ CacheKey(cur[w]) \in failed)
                => pc'[w] = "config"]_vars

\* a key whose resolution failed is sent to the external API again
C1_Witness ==
    \E w \in Workers : pc[w] = "recv" /\ CacheKey(cur[w]) \in failed

\* C2: once a key has been resolved successfully, no later resolution of it
\* calls the rate limiter or the external API: a lookup of a stored key
\* returns the stored value at once, and only a key that is not in the map
\* is ever waited for, sent or stored, so at most one call per key returns
\* a translation.
C2_HitMakesNoCall ==
    /\ [](\A w \in Workers : pc[w] \in InFlight => CacheKey(cur[w]) \notin DOMAIN store)
    /\ [][\A w \in Workers :
            (Leaves(w, "lock") /\ ~poisoned /\ CacheKey(cur[w]) \in DOMAIN store)
                => /\ pc'[w] = "emit"
                   /\ zh'[w] = store[CacheKey(cur[w])]
                   /\ UNCHANGED <<store, file, last, limHolder, clock>>]_vars

\* in the first run, which starts with an empty map, a worker has a hit
C2_Witness ==
    \E w \in Workers :
        /\ run = 1
        /\ pc[w] = "emit"
        /\ ~res[w].some
        /\ CacheKey(cur[w]) \in DOMAIN store
        /\ zh[w] = store[CacheKey(cur[w])]
        /\ zh[w] = trim_end(TextA)

\* C3: at most one worker is between the start of a cache-miss resolution
\* and its end, whatever keys the two workers miss on.
C3_OneRequestOutstanding ==
    Cardinality({w \in Workers : pc[w] \in InFlight}) <= 1

\* one worker awaits the response while the other waits for the cache lock
\* with a different key
C3_Witness ==
    \E w, v \in Workers :
        /\ pc[w] = "recv"
        /\ pc[v] = "lock"
        /\ CacheKey(cur[w]) # CacheKey(cur[v])

\* C4: two consecutively recorded dispatch instants differ by at least the
\* interval, the interval is that of a rate of at least one per second, and
\* the limiter is built so that the first call does not sleep.
C4_DispatchSpacing ==
    /\ [][\A w \in Workers : Leaves(w, "sleep") => last' - last >= interval]_vars
    /\ [](mainpc = "spawn" => SleepFor(interval, duration_since(clock, last)) = 0)
    /\ [](spawned =>
            \E r \in ConfigRates : interval = TicksPerSec \div (IF r < 1 THEN 1 ELSE r))

\* a call of wait() found the interval not yet elapsed since the last
\* dispatch and sleeps
C4_Witness ==
    \E w \in Workers :
        pc[w] = "sleep" /\ last >= 0 /\ deadline[w] > clock /\ deadline[w] <= MaxClock

\* C5: in every run in which the supervised process was spawned and ended
\* with an exit code, the tool exits with that code.
C5_ExitCodeMirrorsChild ==
    (mainpc = "exited" /\ spawned /\ "code" \in DOMAIN childStatus)
        => exitCode = childStatus.code

\* C6: no failure between the cache miss and the extracted response ends a
\* worker: no reader thread ever panics.
C6_TranslationFailureNotFatal ==
    \A w \in Workers : pc[w] # "panicked"

\* C7: when the driver has joined both workers, every line that either
\* stream delivered has been printed: each worker printed as many lines as
\* it read.
C7_EveryLinePrinted ==
    mainpc = "wait" => \A w \in Workers : printed[w] = nread[w]

\* the texts to_string_pretty may produce for a map
Serializations(m) == {to_string_pretty(m, o) : o \in Orders(m)}

SubMap(m, n) == \A k \in DOMAIN m : k \in DOMAIN n /\ n[k] = m[k]

\* the file cannot be loaded: it is missing or its text is not a JSON map
Unloadable(f) == ~f.present \/ ~from_str(f.text).ok

TranslationIn(e) == SubSeq(e.text, Len(e.raw) + 3, Len(e.text) - 1)

\* the entry of a printed line is as the classification of its cleaned text
\* demands, the translation being the sentinel or the map's value for the
\* trimmed, escape-stripped text
PrintedAsClassified(e) ==
    IF should_translate(strip(e.raw))
    THEN /\ e.text = Annotated(e.raw, TranslationIn(e))
         /\ \/ TranslationIn(e) = Sentinel
            \/ /\ trim(strip(e.raw)) \in DOMAIN store
               /\ store[trim(strip(e.raw))] = TranslationIn(e)
    ELSE e.text = e.raw

\* C10: a line whose cleaned text is not to be translated is printed as it
\* is, and printing it touches neither the cache nor the rate limiter nor
\* the external API; any other line is printed as "<raw> (<translation>)",
\* the translation resolved under the trimmed, escape-stripped text.
C10_OutputAndKey ==
    /\ [](stdout # NoLine => PrintedAsClassified(stdout))
    /\ [][\A w \in Workers :
            (printed'[w] = printed[w] + 1 /\ stdout'.text = stdout'.raw)
                => UNCHANGED <<store, file, cacheHolder, poisoned, last, limHolder,
                               clock, pc>>]_vars

\* the decorated line was printed with a translation, and the plain line,
\* about to be printed by the other worker, got the same one from the map
C10_Witness ==
    \E w \in Workers :
        /\ stdout.raw = LineDecorated
        /\ stdout.w # w
        /\ TranslationIn(stdout) = trim_end(TextA)
        /\ pc[w] = "emit"
        /\ cur[w] = LineError
        /\ zh[w] = TranslationIn(stdout)
        /\ ~res[w].some

\* C11: every value in the cache map is trimmed of surrounding whitespace and
\* holds no newline (all the entries of the map come from resolutions: the
\* cache file starts absent or unparsable).
C11_StoredValueNormalised ==
    \A k \in DOMAIN store :
        /\ trim(store[k]) = store[k]
        /\ ~contains(store[k], <<LF>>)

\* C12 as stated: a request is sent at least the interval after the request
\* sent before it, whichever workers sent the two.
C12_RequestsSpaced ==
    [][\A w \in Workers :
          (Leaves(w, "send") /\ sent # -1) => sent' - sent >= interval]_vars

\* C12, amended: the instants wait() records for two consecutive requests
\* are at least the interval apart, and every request is sent between the
\* instant wait() recorded for it and the instant recorded for the next one.
C12_GrantsSpaced ==
    /\ [][\A w \in Workers :
            Leaves(w, "sleep") => (last' - last >= interval /\ sent <= last')]_vars
    /\ [][\A w \in Workers : Leaves(w, "send") => sent' >= last]_vars

\* a request is sent after a sleep, later than the instant wait() recorded
\* for it, while an earlier request was sent in this run
C12_Witness ==
    \E w \in Workers :
        /\ pc[w] = "recv"
        /\ failed # {}
        /\ sent > last
        /\ last >= interval

\* no worker has started and no line has been read or printed in this run
NothingStarted ==
    /\ ~spawned
    /\ \A w \in Workers : pc[w] = "off" /\ nread[w] = 0 /\ printed[w] = 0
    /\ stdout = NoLine

JNull == [t |-> "null"]
JNumber(n) == [t |-> "number", n |-> n]
JString(s) == [t |-> "string", s |-> s]
JArray(a) == [t |-> "array", a |-> a]
JObject(m) == [t |-> "object", m |-> m]

\* str::split('.'): the segments between the dots, empty ones included
RECURSIVE Split(_, _)
Split(s, acc) ==
    IF s = <<>> THEN <<acc>>
    ELSE IF Head(s) = "." THEN <<acc>> \o Split(Tail(s), <<>>)
    ELSE Split(Tail(s), Append(acc, Head(s)))

split(path) == Split(path, <<>>)

\* the value of a digit
DigitValue(c) ==
    CHOOSE d \in 0..9 :
        c = <<"0", "1", "2", "3", "4", "5", "6", "7", "8", "9">>[d + 1]

RECURSIVE DecimalValue(_, _)
DecimalValue(s, acc) ==
    IF s = <<>> THEN acc ELSE DecimalValue(Tail(s), 10 * acc + DigitValue(Head(s)))

\* a faulty variant of parse_usize: no segment is a number
ParseNothing(seg) == [ok |-> FALSE, idx |-> 0]

\* str::parse::<usize>: an optional plus sign, then one or more digits (the
\* numbers of the model are far below usize::MAX)
parse_usize(seg) ==
    LET digits == IF seg # <<>> /\ Head(seg) = "+" THEN Tail(seg) ELSE seg
    IN  IF digits # <<>> /\ \A i \in 1..Len(digits) : IsAsciiDigit(digits[i])
        THEN [ok |-> TRUE, idx |-> DecimalValue(digits, 0)]
        ELSE [ok |-> FALSE, idx |-> 0]

\* Option<&Value>
NoValue == [found |-> FALSE, v |-> JNull]
Found(v) == [found |-> TRUE, v |-> v]

\* Value::get with a usize: the element of an array, counted from 0
get_index(v, idx) ==
    IF v.t = "array" /\ idx < Len(v.a) THEN Found(v.a[idx + 1]) ELSE NoValue

\* Value::get with a &str: the member of an object
get_key(v, key) ==
    IF v.t = "object" /\ key \in DOMAIN v.m THEN Found(v.m[key]) ELSE NoValue

\* extract_json_path, lines 317-324: the loop over the segments from the i-th
RECURSIVE Descend(_, _, _)
Descend(cur_v, segs, i) ==
    IF i > Len(segs) THEN Found(cur_v)
    ELSE LET parsed == parse_usize(segs[i])
             next == IF parsed.ok THEN get_index(cur_v, parsed.idx)
                     ELSE get_key(cur_v, segs[i])
         IN  IF next.found THEN Descend(next.v, segs, i + 1) ELSE NoValue

extract_json_path(v, path) ==
    LET end == Descend(v, split(path), 1)
    IN  IF end.found /\ end.v.t = "string" THEN Some(end.v.s) ELSE None

(***************************************************************************)
(* should_translate and extract_json_path called on their own, on inputs   *)
(* drawn from the sets below.                                              *)
(***************************************************************************)
\* the calls made of one function on one input
MaxCalls == 2

\* the text of n characters c
Rep(c, n) == [i \in 1..n |-> c]

\* lines put together from a start, a part around a pipe and an end
LineStarts == {<<>>, <<" ">>, <<"x", " ">>, <<"1", " ">>, <<"a", "|", "-">>}
LinePipes == {<<>>, <<"|">>, <<"|", " ">>, <<"|", "^">>, <<"|", " ", "^">>, <<"|", "-">>,
              <<"|", " ", " ", "-">>, <<"|", " ", "y">>}
LineEnds == {<<>>, <<" ">> \o KwError, <<" ", "n", "o", "T", "E">>, <<" ">> \o Rep("a", 16),
             <<" ">> \o Rep("=", 16)}
PipeLines == {s \o p \o e : s \in LineStarts, p \in LinePipes, e \in LineEnds}

\* lines that begin as the progress lines of cargo do
ProgressLines ==
    {<<" ", " ">> \o k \o <<" ">> \o KwError : k \in {KwCompiling, KwChecking, KwFinished, KwArrow}}

\* lines without keyword, of lengths around the two limits
LengthLines ==
    {Rep("a", n) : n \in {MinLen, MinLen + 1, MaxLen - 1, MaxLen}}
        \cup {Rep("=", MinLen + 1), Rep(EAcute, 7), Rep(EAcute, 8), Rep(EAcute, 9),
              Rep("a", MaxLen - 2) \o <<EAcute>>, Rep("a", MaxLen - 3) \o <<EAcute>>}

\* lines with a keyword, shorter than the lower limit
KeywordLines ==
    {<<"E">> \o Tail(KwError), <<"W">> \o Tail(KwWarning), <<"a", " ">> \o KwNote,
     <<" ">> \o KwHelp \o <<" ">>, <<"h", "e", "l">>}

CallLines == PipeLines \cup ProgressLines \cup LengthLines \cup KeywordLines

\* the names and texts of the documents
NameChoices == <<"c", "h", "o", "i", "c", "e", "s">>
NameMessage == <<"m", "e", "s", "s", "a", "g", "e">>
NameContent == <<"c", "o", "n", "t", "e", "n", "t">>
TextHola == <<"h", "o", "l", "a">>

\* {"choices":[{"message":{"content":"hola"}}]}
DocChat ==
    JObject(NameChoices :>
                JArray(<<JObject(NameMessage :> JObject(NameContent :> JString(TextHola)))>>))

\* {"0":"hola","content":7}
DocDigitKey == JObject((<<"0">> :> JString(TextHola)) @@ (NameContent :> JNumber(7)))

\* ["hola",null,["hola"]]
DocList == JArray(<<JString(TextHola), JNull, JArray(<<JString(TextHola)>>)>>)

CallDocs == {DocChat, DocDigitKey, DocList, JString(TextHola)}

\* the path to the content of the choice numbered by the segment
PathToContent(seg) ==
    NameChoices \o <<".">> \o seg \o <<".">> \o NameMessage \o <<".">> \o NameContent

PathContent0 == PathToContent(<<"0">>)
PathContent1 == PathToContent(<<"1">>)

CallPaths ==
    {PathContent0, PathContent1,
     PathToContent(<<"+", "0">>), PathToContent(<<"0", "0">>), PathToContent(<<>>),
     PathContent0 \o <<".", "0">>,
     NameChoices \o <<".", "0", ".">> \o NameMessage,
     NameChoices \o <<".">> \o NameMessage,
     NameContent,
     <<"0">>, <<"1">>, <<"2">>, <<"2", ".", "0">>, <<"3">>, <<>>, <<"-", "0">>}

CallInputs ==
    {[fn |-> "should_translate", line |-> l, verdict |-> FALSE, n |-> 0] : l \in CallLines}
        \cup {[fn |-> "extract_json_path", v |-> d, path |-> p, out |-> None, n |-> 0] :
                 d \in CallDocs, p \in CallPaths}

\* the state of the program, which the calls leave alone
program == <<run, mainpc, exitCode, childStatus, spawned, file, store, cacheHolder, poisoned,
             interval, last, limHolder, clock, pc, nread, cur, res, zh, deadline,
             printed, stdout, failed, sent, lastSave, prevStore, prevSave,
             config, linesRead>>

InitCalls ==
    /\ Fresh
    /\ run = 1
    /\ file = NoFile
    /\ prevStore = EmptyMap
    /\ prevSave = "none"
    /\ config = "ok"
    /\ linesRead = 0
    /\ call \in CallInputs

\* should_translate, lines 238-265, is called on the line
CallShouldTranslate ==
    /\ call.fn = "should_translate"
    /\ call.n < MaxCalls
    /\ call' = [call EXCEPT !.verdict = should_translate(call.line), !.n = @ + 1]
    /\ UNCHANGED program

\* extract_json_path, lines 316-326, is called on the document and the path
CallExtractJsonPath ==
    /\ call.fn = "extract_json_path"
    /\ call.n < MaxCalls
    /\ call' = [call EXCEPT !.out = extract_json_path(call.v, call.path), !.n = @ + 1]
    /\ UNCHANGED program

NextCalls ==
    \/ CallShouldTranslate
    \/ CallExtractJsonPath

Calls == InitCalls /\ [][NextCalls]_vars

(***************************************************************************)
(* Properties of the functions called on their own.                        *)
(***************************************************************************)
\* should_translate has been called on the line and has returned
Classified == call.fn = "should_translate" /\ call.n >= 1

\* the line begins, after its leading whitespace, as a progress line does
PrefixExcluded(line) ==
    \E k \in {KwCompiling, KwChecking, KwFinished, KwArrow} :
        starts_with(to_lowercase(trim(line)), k)

\* the line is a gutter: a digit first and a pipe somewhere, or a lone pipe
GutterExcluded(line) ==
    \/ trim(line) # <<>> /\ IsAsciiDigit(Head(trim(line))) /\ "|" \in Range(trim(line))
    \/ trim(line) = <<"|">>

HasPipe(line) == "|" \in Range(line)

\* the place of the first pipe of a line that has one
FirstPipe(line) ==
    CHOOSE i \in 1..Len(line) : line[i] = "|" /\ \A j \in 1..(i - 1) : line[j] # "|"

\* the character right after the first pipe is a marker
MarkerImmediately(line) ==
    FirstPipe(line) < Len(line) /\ line[FirstPipe(line) + 1] \in {"-", "^"}

\* the first character after the first pipe that is not whitespace is a marker
MarkerAfterSpace(line) ==
    \E j \in (FirstPipe(line) + 1)..Len(line) :
        /\ line[j] \in {"-", "^"}
        /\ \A k \in (FirstPipe(line) + 1)..(j - 1) : IsWs(line[k])

HasKeyword(line) ==
    \E k \in {KwError, KwWarning, KwNote, KwHelp} : contains(to_lowercase(line), k)

HasLetter(line) == \E i \in 1..Len(line) : IsAlphabetic(line[i])

\* the keyword/length rule, with the length of the line given
KeywordOrLength(line, length) ==
    HasKeyword(line) \/ (length > 15 /\ length < 120 /\ HasLetter(line))

\* C14 as stated: of a line that passed the prefix and gutter exclusions and
\* has a pipe, should_translate is false when the character right after the
\* first pipe is neither '-' nor '^', and is what the keyword/length rule
\* says when it is one of them.
C14_PipeRuleImmediate ==
    (Classified /\ ~PrefixExcluded(call.line) /\ ~GutterExcluded(call.line) /\ HasPipe(call.line))
        => call.verdict = (MarkerImmediately(call.line)
                          /\ KeywordOrLength(call.line, ByteLen(call.line)))

\* C14, amended: the same with the whitespace after the first pipe skipped
\* before the marker is looked for.
C14_PipeRule ==
    (Classified /\ ~PrefixExcluded(call.line) /\ ~GutterExcluded(call.line) /\ HasPipe(call.line))
        => call.verdict = (MarkerAfterSpace(call.line)
                          /\ KeywordOrLength(call.line, ByteLen(call.line)))

\* the line "x | ^ error", with a blank between pipe and caret, is to be
\* translated
C14_Witness ==
    /\ Classified
    /\ call.line = <<"x", " ", "|", " ", "^", " ">> \o KwError
    /\ call.verdict = TRUE

\* none of the rules before the keyword/length rule excludes the line
PassedExclusions(line) ==
    /\ ~PrefixExcluded(line)
    /\ ~GutterExcluded(line)
    /\ HasPipe(line) => MarkerAfterSpace(line)

\* C15: of a line that the earlier rules do not exclude, should_translate is
\* true exactly when the lower-cased line has one of the four keywords or
\* the line is more than 15 and fewer than 120 characters long and has a
\* letter; and a second call on the same line returns what the first did.
C15_KeywordOrLength ==
    /\ []((Classified /\ PassedExclusions(call.line))
            => call.verdict = KeywordOrLength(call.line, Len(call.line)))
    /\ [][(Classified /\ Classified') => call'.verdict = call.verdict]_vars

\* extract_json_path has been called and has returned
Extracted == call.fn = "extract_json_path" /\ call.n >= 1

\* the values inside a value, itself among them
RECURSIVE Inside(_)
Inside(v) ==
    {v} \cup (IF v.t = "array" THEN UNION {Inside(v.a[i]) : i \in 1..Len(v.a)}
              ELSE IF v.t = "object" THEN UNION {Inside(v.m[k]) : k \in DOMAIN v.m}
              ELSE {})

\* the segment is a decimal numeral, with or without a plus sign before it
Numeral(seg) ==
    \E d \in {seg, IF seg # <<>> /\ Head(seg) = "+" THEN Tail(seg) ELSE seg} :
        d # <<>> /\ \A i \in 1..Len(d) : d[i] \in Digits

\* the number the numeral stands for
NumeralValue(seg) == DecimalValue(IF Head(seg) = "+" THEN Tail(seg) ELSE seg, 0)

\* the segment leads from the value p to the value c: as an index, counted
\* from 0, into a sequence when it is a numeral, as a key into a mapping
\* when it is not
LeadsTo(p, seg, c) ==
    IF Numeral(seg)
    THEN p.t = "array" /\ \E i \in 1..Len(p.a) : NumeralValue(seg) = i - 1 /\ c = p.a[i]
    ELSE p.t = "object" /\ seg \in DOMAIN p.m /\ c = p.m[seg]

\* the segments lead, one after the other, from the value v to the value c
Reaches(v, segs, c) ==
    \E chain \in [0..Len(segs) -> Inside(v)] :
        /\ chain[0] = v
        /\ \A i \in 1..Len(segs) : LeadsTo(chain[i - 1], segs[i], chain[i])
        /\ chain[Len(segs)] = c

\* C16: extract_json_path returns the string that the segments of the path
\* lead to, a numeral taken as an index into a sequence and any other
\* segment as a key into a mapping, and returns nothing when they lead to no
\* value or to a value that is not a string; choices.0.message.content
\* yields "hola" and choices.1.message.content nothing.
C16_ExtractJsonPath ==
    Extracted =>
        LET reached == {c \in Inside(call.v) : Reaches(call.v, split(call.path), c)}
            strings == {c \in reached : c.t = "string"}
        IN  /\ call.out.some => JString(call.out.val) \in strings
            /\ ~call.out.some => strings = {}
            /\ (call.v = DocChat /\ call.path = PathContent0) => call.out = Some(TextHola)
            /\ (call.v = DocChat /\ call.path = PathContent1) => call.out = None

\* choices.0.message.content was extracted from the chat document
C16_Witness ==
    /\ Extracted
    /\ call.v = DocChat
    /\ call.path = PathContent0
    /\ call.out = Some(TextHola)

\* C17: no step of a running worker writes an entry into the cache map whose
\* value is the failure sentinel, whatever the external API returned.
C17_SentinelNeverStored ==
    [][Running =>
          \A k \in DOMAIN store' :
              (k \notin DOMAIN store \/ store'[k] # store[k]) => store'[k] # Sentinel]_vars

\* C18: within a run no step removes a key of the cache map or changes the
\* value of a key that is in it, the entries loaded from the file included,
\* and a hit returns the value the map holds and leaves the map alone.
C18_MapOnlyGrows ==
    /\ [][run' = run => SubMap(store, store')]_vars
    /\ [][\A w \in Workers :
            (Leaves(w, "lock") /\ pc'[w] = "emit")
                => (zh'[w] = store[CacheKey(cur[w])] /\ store' = store)]_vars

\* in the second run the map holds the entries loaded from the file and one
\* more
C18_Witness ==
    /\ run = 2
    /\ DOMAIN prevStore # {}
    /\ SubMap(prevStore, store)
    /\ DOMAIN store # DOMAIN prevStore

(***************************************************************************)
(* The run under a fair scheduler: a thread that can take a step takes     *)
(* one; a stream whose lines are read reaches its end, and a call of       *)
(* query_llm returns.                                                      *)
(***************************************************************************)
\* the steps of a reader thread
Worker(w) ==
    \/ ReadLine(w)
    \/ ReadEof(w)
    \/ LockCache(w)
    \/ GetConfig(w)
    \/ WaitBegin(w)
    \/ WaitEnd(w)
    \/ Send(w)
    \/ Recv(w)
    \/ Emit(w)

\* the steps of the main thread
Main ==
    \/ MainLoadConfig
    \/ MainSetup
    \/ MainSpawn
    \/ MainJoin
    \/ MainWait

FairSpec ==
    /\ Spec
    /\ WF_vars(Main)
    /\ \A w \in Workers : WF_vars(Worker(w))

\* C19: the limiter's lock is held only by the worker that holds the cache
\* lock, a worker that takes the cache lock does not hold the limiter's,
\* and in every run that spawned the workers both of them come to the end
\* of their streams and the driver, having joined them and waited for the
\* supervised process, ends the run.
C19_NoDeadlock ==
    /\ [](limHolder # 0 => cacheHolder = limHolder)
    /\ [][\A w \in Workers :
            (cacheHolder # w /\ cacheHolder' = w) => limHolder # w]_vars
    /\ spawned ~> (mainpc = "exited" /\ \A w \in Workers : pc[w] = "done")

====
